---- MODULE Spec2Model ----
(***************************************************************************)
(* Model of vizro's ParameterAction                                        *)
(* (vizro-core/src/vizro/actions/parameter_action.py).                     *)
(*                                                                         *)
(* Strings are sequences of characters over Alphabet, so that              *)
(* `"." in target` and `target.split(".")` are computed, not assumed.      *)
(* The model manager, the figure update engine and the input helpers are   *)
(* collaborators whose code lives outside parameter_action.py; they are    *)
(* modelled from their documented contract.                                *)
(***************************************************************************)
EXTENDS Integers, Sequences, FiniteSets, TLC

\* ------------------------------------------------------------------ bounds
MaxStrLen == 3
MaxTargets == 2

\* ----------------------------------------------------------------- strings
Sep == "."
Alphabet == {"a", Sep}

Strings == UNION {[1..n -> Alphabet] : n \in 0..MaxStrLen}

TargetLists == UNION {[1..n -> Strings] : n \in 0..MaxTargets}

\* Python: `sub in s` for a one-character sub
Contains(s, ch) == \E i \in 1..Len(s) : s[i] = ch

RECURSIVE scan(_, _, _, _)
scan(s, i, cur, acc) ==
    IF i > Len(s) THEN Append(acc, cur)
    ELSE IF s[i] = Sep THEN scan(s, i + 1, <<>>, Append(acc, cur))
    ELSE scan(s, i + 1, Append(cur, s[i]), acc)

\* Python: s.split(".") -- the list of the maximal separator-free pieces
split(s) == scan(s, 1, <<>>, <<>>)

\* Mutant of TargetId: takes the last piece instead of the first
TargetIdLast(target) == split(target)[Len(split(target))]

\* Python: target.split(".")[0]
TargetId(target) == split(target)[1]

\* Mutant of TargetIds: hands on the whole target strings, argument path
\* not stripped
TargetIdsWhole(ts) == ts

\* [target.split(".")[0] for target in targets]
TargetIds(ts) == [i \in 1..Len(ts) |-> TargetId(ts[i])]

Range(f) == {f[i] : i \in DOMAIN f}

\* ---------------------------------------------------------- model manager
ActionId == <<"action">>
CompA == <<"a">>
CompB == <<"a", "a">>
Pages == {"p1", "p2"}

\* The registries the application can have been built with: component "a"
\* is on page p1, component "aa" on p1 or p2, the action is on p1, on p2, or
\* is not registered under any page.
Registries ==
    {[m \in D |-> IF m = CompA THEN "p1" ELSE IF m = CompB THEN pb ELSE pa] :
        <<D, pa, pb>> \in ({{CompA, CompB, ActionId}} \X Pages \X Pages)
                          \cup ({{CompA, CompB}} \X {"p1"} \X Pages)}

NoError == [kind |-> "none", target |-> <<>>, page |-> "", path |-> <<>>]
Error(k, t, p, path) == [kind |-> k, target |-> t, page |-> p, path |-> path]

VARIABLES
    registry,     \* model_manager: model id -> id of the page that owns it
    arguments,    \* self._arguments["targets"], captured at construction
    attrs,        \* names of the attributes set on the action object
    _page_id,     \* self._page_id
    targets,      \* self.targets
    pc,           \* "new", "built" (_post_init returned), "failed" (raised)
    op,           \* the last operation performed
    error,        \* what the last operation raised, NoError if it returned
    handed,       \* target ids last handed to _get_modified_page_figures
    figs,         \* last mapping returned by pure_function
    rendered,     \* current representation of every registered component
    calls,        \* the last two pure_function calls: targets, ctx, outcome
    outs,         \* last value of the outputs property
    ins           \* last value of the inputs property

vars == <<registry, arguments, attrs, _page_id, targets, pc, op, error,
          handed, figs, rendered, calls, outs, ins>>

\* model_manager._get_model_page_id(model_id): unknown ids are a lookup miss
_get_model_page_id(model_id) ==
    IF model_id \in DOMAIN registry
    THEN [ok |-> TRUE, page |-> registry[model_id]]
    ELSE [ok |-> FALSE, page |-> ""]

Components == {CompA, CompB}

\* model_manager[target]._output_component_property
_output_component_property(c) == IF c = CompA THEN "figure" ELSE "children"

\* the argument paths a component's construction recipe accepts
SupportedPaths(c) == IF c = CompA THEN {<<"a">>} ELSE {<<"a">>, <<"a", "a">>}

\* ------------------------------------------------------------ _post_init
\* the body of `for target in targets:` from the i-th target on; the value
\* is the error raised, NoError when the loop runs to its end
\* Mutant of validate: the separator check is missing
RECURSIVE validateNoSep(_, _, _)
validateNoSep(ts, i, page) ==
    IF i > Len(ts) THEN NoError
    ELSE LET target_id == TargetId(ts[i])
             owner == _get_model_page_id(target_id)
         IN  IF ~owner.ok THEN Error("NotFound", target_id, "", <<>>)
             ELSE IF page # owner.page
                  THEN Error("ForeignTarget", target_id, page, <<>>)
             ELSE validateNoSep(ts, i + 1, page)

\* Mutant of validate: the ownership check is missing
RECURSIVE validateNoOwner(_, _, _)
validateNoOwner(ts, i, page) ==
    IF i > Len(ts) THEN NoError
    ELSE IF ~Contains(ts[i], Sep)
         THEN Error("MalformedTarget", ts[i], "", <<>>)
    ELSE validateNoOwner(ts, i + 1, page)

RECURSIVE validate(_, _, _)
validate(ts, i, page) ==
    IF i > Len(ts) THEN NoError
    ELSE IF ~Contains(ts[i], Sep)
         THEN Error("MalformedTarget", ts[i], "", <<>>)
    ELSE LET target_id == TargetId(ts[i])
             owner == _get_model_page_id(target_id)
         IN  IF ~owner.ok THEN Error("NotFound", target_id, "", <<>>)
             ELSE IF page # owner.page
                  THEN Error("ForeignTarget", target_id, page, <<>>)
             ELSE validate(ts, i + 1, page)

_post_init ==
    /\ pc = "new"
    /\ op' = "_post_init"
    /\ LET own == _get_model_page_id(ActionId)
       IN  IF ~own.ok
           THEN /\ error' = Error("NotFound", ActionId, "", <<>>)
                /\ pc' = "failed"
                /\ UNCHANGED <<attrs, _page_id, targets>>
           ELSE LET e == validate(arguments, 1, own.page)
                IN  /\ _page_id' = own.page
                    /\ targets' = arguments
                    /\ attrs' = {"_page_id", "targets"}
                    /\ error' = e
                    /\ pc' = IF e = NoError THEN "built" ELSE "failed"
    /\ UNCHANGED <<registry, arguments, handed, figs, rendered, calls,
                   outs, ins>>

EmptyMap == <<>>

\* -------------------------------------------------- figure update engine
FilterValues == {"f1", "f2"}
InteractionValues == {"i1", "i2"}
ParameterValues == {"v1", "v2"}

\* the (filter, interaction, parameter) values the runtime triggers with:
\* a base selection and each of its one-value changes
Contexts ==
    {c \in FilterValues \X InteractionValues \X ParameterValues :
        Cardinality({i \in 1..3 : c[i] # <<"f1", "i1", "v1">>[i]}) <= 1}

\* ctx.args_grouping["external"] as the runtime supplies it for one trigger:
\* the current filter and interaction values, and one entry per parameter
\* action of the page carrying its value and its declared targets
ArgsGrouping(fv, iv, pv, declared) ==
    [filters |-> <<fv>>,
     filter_interaction |-> <<iv>>,
     parameters |-> <<[value |-> pv, targets |-> declared]>>]

\* the argument path of a target: what follows its first separator
ArgumentPath(target) ==
    SubSeq(target, Len(TargetId(target)) + 2, Len(target))

\* the overrides one parameter's declared targets, from the j-th on, add to
\* those of component c: its argument path gets the parameter's value
RECURSIVE ApplyDeclared(_, _, _, _, _)
ApplyDeclared(c, declared, j, value, acc) ==
    IF j > Len(declared) THEN acc
    ELSE IF Contains(declared[j], Sep) /\ TargetId(declared[j]) = c
         THEN ApplyDeclared(c, declared, j + 1, value,
                            (ArgumentPath(declared[j]) :> value) @@ acc)
    ELSE ApplyDeclared(c, declared, j + 1, value, acc)

\* the parameter overrides of component c: argument path -> value, applied
\* in order from the k-th parameter on, the last applied winning
RECURSIVE ApplyParameters(_, _, _, _)
ApplyParameters(c, params, k, acc) ==
    IF k > Len(params) THEN acc
    ELSE ApplyParameters(c, params, k + 1,
             ApplyDeclared(c, params[k].targets, 1, params[k].value, acc))

Overrides(c, params) == ApplyParameters(c, params, 1, EmptyMap)

\* the figure of component c: its construction recipe with the current
\* filters, interactions and overrides; an override on a path the recipe
\* does not accept is an error
Figure(c, flt, flt_interaction, params) ==
    LET ov == Overrides(c, params)
        unsupported == DOMAIN ov \ SupportedPaths(c)
    IN  IF c \notin DOMAIN registry
        THEN [ok |-> FALSE, value |-> EmptyMap,
              error |-> Error("NotFound", c, "", <<>>)]
        ELSE IF unsupported # {}
        THEN [ok |-> FALSE, value |-> EmptyMap,
              error |-> Error("UnsupportedArgumentPath", c, "",
                              CHOOSE q \in unsupported : TRUE)]
        ELSE [ok |-> TRUE,
              value |-> [recipe |-> c, filters |-> flt,
                         filter_interaction |-> flt_interaction,
                         overrides |-> ov],
              error |-> NoError]

\* the targets from the i-th on, recomputed into the mapping acc; the first
\* failing target ends the recomputation with its error
RECURSIVE ModifiedFrom(_, _, _, _, _, _)
ModifiedFrom(target_ids, i, flt, flt_interaction, params, acc) ==
    IF i > Len(target_ids)
    THEN [ok |-> TRUE, value |-> acc, error |-> NoError]
    ELSE IF target_ids[i] \in DOMAIN acc
    THEN ModifiedFrom(target_ids, i + 1, flt, flt_interaction, params, acc)
    ELSE LET f == Figure(target_ids[i], flt, flt_interaction, params)
         IN  IF ~f.ok THEN f
             ELSE ModifiedFrom(target_ids, i + 1, flt, flt_interaction,
                               params, (target_ids[i] :> f.value) @@ acc)

\* _get_modified_page_figures: recompute the targeted components from their
\* construction recipe and the current filters, interactions and overrides
_get_modified_page_figures(target_ids, flt, flt_interaction, params) ==
    ModifiedFrom(target_ids, 1, flt, flt_interaction, params, EmptyMap)

\* --------------------------------------------------------- pure_function
\* Mutant of ctds_filter: the filters of the previous trigger are used
ctds_filterStale(ctx) ==
    IF calls = <<>> THEN ctx.filters ELSE calls[Len(calls)].ctx.filters

\* ctx.args_grouping["external"]["filters"]
ctds_filter(ctx) == ctx.filters

\* ctx.args_grouping["external"]["filter_interaction"]
ctds_filter_interaction(ctx) == ctx.filter_interaction

\* ctx.args_grouping["external"]["parameters"]
ctds_parameters(ctx) == ctx.parameters

\* one reactive trigger: the runtime calls pure_function with the captured
\* targets and writes the returned figures to the targeted components
pure_function ==
    /\ pc = "built"
    /\ \E sel \in Contexts :
        LET ctx == ArgsGrouping(sel[1], sel[2], sel[3], targets)
            target_ids == TargetIds(arguments)
        IN  \E r \in {_get_modified_page_figures(target_ids,
                          ctds_filter(ctx), ctds_filter_interaction(ctx),
                          ctds_parameters(ctx))} :
                /\ handed' = target_ids
                /\ figs' = r.value
                /\ error' = r.error
                /\ rendered' = [c \in DOMAIN rendered |->
                                   IF c \in DOMAIN r.value THEN r.value[c]
                                   ELSE rendered[c]]
                /\ calls' = LET call == [targets |-> arguments, ctx |-> ctx,
                                         ok |-> r.ok, value |-> r.value,
                                         error |-> r.error]
                            IN  IF Len(calls) < 2 THEN Append(calls, call)
                                ELSE <<calls[2], call>>
    /\ op' = "pure_function"
    /\ UNCHANGED <<registry, arguments, attrs, _page_id, targets, pc,
                   outs, ins>>

\* ---------------------------------------------------------------- inputs
\* the reactive inputs the page's filters, figure interactions and
\* parameters contribute, in the order the page's action graph lists them
_get_inputs_of_filters(page) ==
    IF page = "p1" THEN <<"filter_a.value", "filter_b.value">>
    ELSE <<"filter_c.value">>

_get_inputs_of_figure_interactions(page) ==
    IF page = "p1" THEN <<"a.clickData">> ELSE <<>>

_get_inputs_of_parameters(page) ==
    IF page = "p1" THEN <<"parameter_a.value">>
    ELSE <<"parameter_b.value", "parameter_c.value">>

inputs ==
    /\ pc = "built"
    /\ op' = "inputs"
    /\ IF _page_id \in Pages
       THEN /\ ins' = [filters |-> _get_inputs_of_filters(_page_id),
                       filter_interaction |->
                           _get_inputs_of_figure_interactions(_page_id),
                       parameters |-> _get_inputs_of_parameters(_page_id),
                       theme_selector |->
                           [component_id |-> "theme_selector",
                            component_property |-> "checked"]]
            /\ error' = NoError
       ELSE /\ ins' = EmptyMap
            /\ error' = Error("NotFound", <<>>, _page_id, <<>>)
    /\ UNCHANGED <<registry, arguments, attrs, _page_id, targets, pc,
                   handed, figs, rendered, calls, outs>>

\* --------------------------------------------------------------- outputs
\* Mutant of DictSet: every assignment adds an item
DictSetAppend(d, k, v) == Append(d, [key |-> k, value |-> v])

\* Python dict assignment d[k] = v on a dict kept as its list of items:
\* a new key is appended, an existing key keeps its place
DictSet(d, k, v) ==
    IF \E i \in DOMAIN d : d[i].key = k
    THEN [i \in DOMAIN d |-> IF d[i].key = k THEN [key |-> k, value |-> v]
                             ELSE d[i]]
    ELSE Append(d, [key |-> k, value |-> v])

Output(id, property) ==
    [component_id |-> id, component_property |-> property,
     allow_duplicate |-> TRUE]

\* {target: Output(...) for target in target_ids}, from the i-th id on
RECURSIVE OutputsDict(_, _, _)
OutputsDict(target_ids, i, d) ==
    IF i > Len(target_ids) THEN d
    ELSE OutputsDict(target_ids, i + 1,
             DictSet(d, target_ids[i],
                     Output(target_ids[i],
                            _output_component_property(target_ids[i]))))

\* Mutant of outputs: the computed target ids are stored back on the action
outputsStoresIds ==
    /\ pc = "built"
    /\ op' = "outputs"
    /\ targets' = TargetIds(targets)
    /\ outs' = OutputsDict(TargetIds(targets), 1, <<>>)
    /\ error' = NoError
    /\ UNCHANGED <<registry, arguments, attrs, _page_id, pc,
                   handed, figs, rendered, calls, ins>>

outputs ==
    /\ pc = "built"
    /\ op' = "outputs"
    /\ LET target_ids == TargetIds(targets)
           missing == {i \in DOMAIN target_ids :
                           target_ids[i] \notin DOMAIN registry}
       IN  IF missing # {}
           THEN /\ outs' = <<>>
                /\ error' = Error("NotFound",
                                  target_ids[CHOOSE i \in missing :
                                      \A j \in missing : i <= j], "", <<>>)
           ELSE /\ outs' = OutputsDict(target_ids, 1, <<>>)
                /\ error' = NoError
    /\ UNCHANGED <<registry, arguments, attrs, _page_id, targets, pc,
                   handed, figs, rendered, calls, ins>>


InitialFigure(c) ==
    [recipe |-> c, filters |-> <<>>, filter_interaction |-> <<>>,
     overrides |-> EmptyMap]

Init ==
    /\ registry \in Registries
    /\ arguments \in TargetLists
    /\ attrs = {}
    /\ _page_id = ""
    /\ targets = <<>>
    /\ pc = "new"
    /\ op = "init"
    /\ error = NoError
    /\ handed = <<>>
    /\ figs = EmptyMap
    /\ rendered = [c \in Components |-> InitialFigure(c)]
    /\ calls = <<>>
    /\ outs = <<>>
    /\ ins = EmptyMap

Next == _post_init \/ pure_function \/ inputs \/ outputs

Spec == Init /\ [][Next]_vars

\* =================================================================
\* Properties
\* =================================================================
HasSep(t) == \E i \in 1..Len(t) : t[i] = Sep

\* position of the first separator of a target that has one
FirstSep(t) == CHOOSE i \in 1..Len(t) :
                   t[i] = Sep /\ \A j \in 1..(i - 1) : t[j] # Sep

\* the substring before the first separator, and the whole remainder
ComponentPart(t) == SubSeq(t, 1, FirstSep(t) - 1)
RemainderPart(t) == SubSeq(t, FirstSep(t) + 1, Len(t))

ActionResolved == ActionId \in DOMAIN registry

\* "A.b" with A unknown to the registry
UnknownTarget(t) == HasSep(t) /\ ComponentPart(t) \notin DOMAIN registry

\* "A.b" with A owned by another page than the action's
ForeignTarget(t) ==
    /\ HasSep(t)
    /\ ActionResolved
    /\ ComponentPart(t) \in DOMAIN registry
    /\ registry[ComponentPart(t)] # registry[ActionId]

\* "A.b" with A a component of the action's page
ValidTarget(t) ==
    /\ HasSep(t)
    /\ ActionResolved
    /\ ComponentPart(t) \in DOMAIN registry
    /\ registry[ComponentPart(t)] = registry[ActionId]

FirstInvalid(ts) == CHOOSE i \in DOMAIN ts :
                        ~ValidTarget(ts[i])
                        /\ \A j \in 1..(i - 1) : ValidTarget(ts[j])

ComponentParts(ts) == [i \in DOMAIN ts |-> ComponentPart(ts[i])]

FirstOccurrence(ids, k) == CHOOSE i \in DOMAIN ids :
                               ids[i] = k /\ \A j \in 1..(i - 1) : ids[j] # k

\* ---------------------------------------------------------------- C1
\* C1 (as stated): whenever the outputs property returns, it holds exactly
\* one descriptor per target, in target order, duplicates included, so the
\* descriptor count equals the target count.
C1_OneDescriptorPerTarget ==
    (op = "outputs" /\ error = NoError) =>
        /\ Len(outs) = Len(targets)
        /\ \A i \in DOMAIN targets :
               outs[i].value.component_id = ComponentPart(targets[i])

\* C1 (amended): whenever the outputs property returns, it holds exactly one
\* descriptor per distinct target component id, keyed by that id, in the
\* order of the ids' first occurrence among the targets, each permitting
\* duplicate writes; targets naming the same component share one descriptor,
\* so the count equals the target count exactly when the ids are distinct.
C1_OneDescriptorPerDistinctComponent ==
    (op = "outputs" /\ error = NoError) =>
        LET ids == ComponentParts(targets)
        IN  /\ Len(outs) = Cardinality(Range(ids))
            /\ {outs[i].key : i \in DOMAIN outs} = Range(ids)
            /\ \A i \in DOMAIN outs :
                   /\ outs[i].value.component_id = outs[i].key
                   /\ outs[i].value.component_property =
                          _output_component_property(outs[i].key)
                   /\ outs[i].value.allow_duplicate
            /\ \A i, j \in DOMAIN outs :
                   i < j => FirstOccurrence(ids, outs[i].key)
                            < FirstOccurrence(ids, outs[j].key)
            /\ (Cardinality(Range(ids)) = Len(ids)) <=>
                   (Len(outs) = Len(targets))

\* two targets on one component have produced a single descriptor
C1_Witness ==
    /\ op = "outputs"
    /\ error = NoError
    /\ Len(targets) = 2
    /\ targets[1] # targets[2]
    /\ ComponentPart(targets[1]) = ComponentPart(targets[2])
    /\ Len(outs) = 1

\* ---------------------------------------------------------------- C2
\* C2 (as stated): once _post_init has run on targets one of which names a
\* component of another page, it has failed with the foreign-target error
\* naming such a component and the action's page.
C2_ForeignTargetRaisesForeignError ==
    (pc # "new" /\ \E i \in DOMAIN arguments : ForeignTarget(arguments[i]))
    => /\ pc = "failed"
       /\ error.kind = "ForeignTarget"
       /\ error.page = registry[ActionId]
       /\ \E i \in DOMAIN arguments :
              /\ ForeignTarget(arguments[i])
              /\ error.target = ComponentPart(arguments[i])

\* C2 (amended): once _post_init has run on targets one of which names a
\* component of another page, it has failed; the error is the foreign-target
\* error naming that component and the action's page when that target is the
\* first invalid one of the sequence (an earlier malformed or unknown target
\* raises its own error first).
C2_ForeignTargetFailsConstruction ==
    (pc # "new" /\ \E i \in DOMAIN arguments : ForeignTarget(arguments[i]))
    => /\ pc = "failed"
       /\ LET i == FirstInvalid(arguments)
          IN  ForeignTarget(arguments[i]) =>
                  error = Error("ForeignTarget", ComponentPart(arguments[i]),
                                registry[ActionId], <<>>)

\* a valid target followed by a foreign one has raised the foreign error
C2_Witness ==
    /\ pc = "failed"
    /\ Len(arguments) = 2
    /\ ValidTarget(arguments[1])
    /\ ForeignTarget(arguments[2])
    /\ error.kind = "ForeignTarget"
    /\ error.target = ComponentPart(arguments[2])

\* ---------------------------------------------------------------- C3
\* C3 (as stated): once _post_init of an action registered on a page has
\* run on targets one of which has no separator, it has failed with the
\* malformed-target error, wherever that target stands.
C3_MalformedTargetRaisesMalformedError ==
    (pc # "new" /\ ActionResolved
     /\ \E i \in DOMAIN arguments : ~HasSep(arguments[i]))
    => pc = "failed" /\ error.kind = "MalformedTarget"

\* C3 (amended): once _post_init has run on targets one of which has no
\* separator, it has failed; the error is the malformed-target error naming
\* that string when the action's page resolves and that target is the first
\* invalid one of the sequence (an earlier foreign or unknown target raises
\* its own error first).
C3_MalformedTargetFailsConstruction ==
    (pc # "new" /\ \E i \in DOMAIN arguments : ~HasSep(arguments[i]))
    => /\ pc = "failed"
       /\ ActionResolved =>
              LET i == FirstInvalid(arguments)
              IN  ~HasSep(arguments[i]) =>
                      error = Error("MalformedTarget", arguments[i], "", <<>>)

\* a valid target followed by a separator-free one has raised the
\* malformed-target error
C3_Witness ==
    /\ pc = "failed"
    /\ Len(arguments) = 2
    /\ ValidTarget(arguments[1])
    /\ ~HasSep(arguments[2])
    /\ error = Error("MalformedTarget", arguments[2], "", <<>>)

\* ---------------------------------------------------------------- C4
\* C4: once _post_init of an action registered on a page has run on targets
\* that all have the form "A.b" with A a component of that page, it has
\* succeeded, the stored targets
\* are the given ones in the given order, and each resolves to the component
\* id before its first separator and the argument path that is the whole
\* remainder.
C4_ValidTargetsResolve ==
    (pc # "new" /\ ActionResolved
     /\ \A i \in DOMAIN arguments : ValidTarget(arguments[i]))
    => /\ pc = "built"
       /\ "targets" \in attrs
       /\ targets = arguments
       /\ \A i \in DOMAIN targets :
              /\ TargetId(targets[i]) = ComponentPart(arguments[i])
              /\ ArgumentPath(targets[i]) = RemainderPart(arguments[i])
              /\ registry[TargetId(targets[i])] = _page_id

\* two different valid targets, one with a second separator in its argument
\* path, have been accepted
C4_Witness ==
    /\ pc = "built"
    /\ Len(targets) = 2
    /\ targets[1] # targets[2]
    /\ HasSep(RemainderPart(targets[1]))
    /\ ComponentPart(targets[2]) # ComponentPart(targets[1])

\* ---------------------------------------------------------------- C5
TargetValidationErrors ==
    {"MalformedTarget", "ForeignTarget", "UnsupportedArgumentPath"}

\* C5 (as stated): once _post_init has succeeded, no later pure_function
\* invocation or inputs/outputs query fails with a target validation error
\* (malformed target, foreign target, unsupported argument path).
C5_NoValidationErrorAfterBuild ==
    pc = "built" => error.kind \notin TargetValidationErrors

\* C5 (amended): malformed, foreign and unregistered targets are rejected
\* eagerly by _post_init: once it has succeeded every stored target has a
\* separator and names a component of the action's page, no later inputs or
\* outputs query fails, and no pure_function invocation fails with a
\* malformed-, foreign- or unknown-target error. (An unsupported argument
\* path is not checked by _post_init; it is raised at invocation.)
C5_TargetErrorsRaisedAtBuild ==
    pc = "built" =>
        /\ \A i \in DOMAIN targets : ValidTarget(targets[i])
        /\ error.kind \notin {"MalformedTarget", "ForeignTarget", "NotFound"}
        /\ op \in {"inputs", "outputs"} => error = NoError

\* after a successful build an invocation has failed on an argument path
\* and the outputs have then been queried without error
C5_Witness ==
    /\ pc = "built"
    /\ op = "outputs"
    /\ error = NoError
    /\ outs # <<>>
    /\ calls # <<>>
    /\ calls[Len(calls)].error.kind = "UnsupportedArgumentPath"

\* ---------------------------------------------------------------- C6
\* C6: every pure_function invocation hands the figure update engine exactly
\* the component ids of the given targets, returns a mapping whose keys are
\* exactly those ids, and leaves the representation of every other component
\* as it was.
C6_OnlyTargetsRecomputed ==
    [][op' = "pure_function" =>
        LET ids == ComponentParts(arguments)
        IN  /\ handed' = ids
            /\ error' = NoError => DOMAIN figs' = Range(ids)
            /\ \A c \in DOMAIN rendered :
                   c \notin Range(ids) => rendered'[c] = rendered[c]
            /\ DOMAIN rendered' = DOMAIN rendered]_vars

\* component "a" has been recomputed while "aa", on the same page and not
\* targeted, still has its initial representation
C6_Witness ==
    /\ op = "pure_function"
    /\ error = NoError
    /\ DOMAIN figs = {CompA}
    /\ registry[CompB] = _page_id
    /\ rendered[CompA] = figs[CompA]
    /\ rendered[CompA] # InitialFigure(CompA)
    /\ rendered[CompB] = InitialFigure(CompB)

C8_UnknownComponentFailsConstruction ==
    (pc # "new" /\ \E i \in DOMAIN arguments : UnknownTarget(arguments[i]))
    => /\ pc = "failed"
       /\ error.kind \in {"NotFound", "MalformedTarget", "ForeignTarget"}

\* a valid target followed by one on an unregistered component has raised
\* the lookup error for that component
C8_Witness ==
    /\ pc = "failed"
    /\ Len(arguments) = 2
    /\ ValidTarget(arguments[1])
    /\ UnknownTarget(arguments[2])
    /\ error = Error("NotFound", ComponentPart(arguments[2]), "", <<>>)

\* ---------------------------------------------------------------- C9
\* C9: every pure_function invocation and every inputs or outputs query
\* leaves the action's targets and _page_id and the registry as they were,
\* and targets still holds the value stored at initialization.
C9_InvocationsReadOnly ==
    [][op' \in {"pure_function", "inputs", "outputs"} =>
        /\ targets' = targets
        /\ _page_id' = _page_id
        /\ attrs' = attrs
        /\ registry' = registry
        /\ targets' = arguments]_vars

\* invocations and both queries have happened on an action with two targets
C9_Witness ==
    /\ op = "outputs"
    /\ Len(calls) = 2
    /\ DOMAIN ins # {}
    /\ outs # <<>>
    /\ Len(targets) = 2
    /\ targets = arguments

\* --------------------------------------------------------------- C10
\* C10: in every state, the targets attribute of the action is unset or
\* holds only validated targets: each has a separator and names a component
\* of the action's page.
C10_StoredTargetsValidated ==
    "targets" \in attrs => \A i \in DOMAIN targets : ValidTarget(targets[i])
====
